---- MODULE Spec2Model ----
(***************************************************************************)
(* A model of the match synchronisation service of footstique-api:         *)
(* SyncService (services/syncService.js), MatchService.bulkUpsertMatches   *)
(* (services/matchService.js), the SyncLog / Match collections and the     *)
(* callers of syncMatches() (POST /admin/sync and the cron handler).       *)
(*                                                                         *)
(* JavaScript values that may be undefined are modelled as sequences of    *)
(* length at most one: <<>> is undefined, <<v>> is the value v.            *)
(***************************************************************************)
EXTENDS Integers, Sequences, FiniteSets, TLC

VARIABLES
    isRunning,       \* SyncService.isRunning
    totalRuns,       \* SyncService.totalRuns
    lastSyncStatus,  \* SyncService.lastSyncStatus
    lastError,       \* SyncService.lastError
    syncLogs,        \* the SyncLog collection, in insertion order
    matches,         \* the Match collection, in insertion order
    lastSyncDate,    \* AppSetting 'last_sync_date'
    now,             \* the wall clock (Date.now()), in ticks
    pc,              \* per caller: the point its syncMatches() call has reached
    run,             \* per caller: the local variables of its syncMatches() call
    api,             \* one makeApiRequest(url) call, attempt by attempt (SpecApi)
    calls,           \* history of direct bulkUpsertMatches() calls (SpecUpsert)
    plan,            \* the last getSmartSyncDates() call and its result (SpecPlan)
    fetch,           \* the last transformFixtureData() / fetchMatchesByDate() call (SpecFetch)
    sched,           \* SyncService.schedulerEnabled / nextRun and the call that set them
    Channel,         \* the Channel collection: the _ids of the stored channels
    admin            \* the admin requests in flight: one link, one channel deletion

vars == <<isRunning, totalRuns, lastSyncStatus, lastError, syncLogs, matches,
          lastSyncDate, now, pc, run, api, calls, plan, fetch, sched, Channel,
          admin>>

----------------------------------------------------------------------------
(* Bounds of the model *)

MaxRuns == 2        \* accepted syncMatches() invocations explored
MaxClock == 2       \* clock ticks explored
MaxPayload == 1     \* fixtures per API response
MaxCalls == 2       \* bulkUpsertMatches() calls explored (SpecUpsert)
MaxList == 1        \* matches per bulkUpsertMatches() call (SpecUpsert)
MaxChannels == 1    \* channel ids per linkChannelsToMatch() call (SpecLink)
MaxEntries == 2     \* entries per payload list given to fetchMatchesByDate (SpecFetch)

Callers == {"manual", "cron"}

----------------------------------------------------------------------------
(* Configuration: config/constants.js *)

MAX_RETRIES == 3
RETRY_DELAY == 2000
RATE_LIMIT_DELAY == 1000

SUPPORTED_LEAGUES ==
    {1, 2, 3, 4, 5, 6, 9, 19, 15,
     17, 18, 20, 24, 29, 30, 31, 32, 33, 34, 35, 36, 39, 40, 41, 45, 48,
     54, 61, 94, 135, 140, 143, 144, 147, 186, 197, 200, 201, 202, 233,
     262, 263, 264, 307, 308, 531, 533, 538, 539, 390, 496, 514, 516, 556,
     714, 720, 826, 768, 801, 807, 822, 848, 860, 895, 934, 953,
     1129, 1132, 1163}

----------------------------------------------------------------------------
(* JavaScript values *)

None == <<>>
Some(v) == <<v>>

\* !x for a possibly-undefined number / string
FalsyNum(o) == o = None \/ o = Some(0)
FalsyStr(o) == o = None \/ o = Some("")

\* x || d
OrElse(o, d, falsy) == IF falsy THEN d ELSE o[1]

Pow2(n) == 2 ^ n

\* Number.prototype.toString() for the fixture ids the model uses
DigitStr(d) == CASE d = 0 -> "0" [] d = 1 -> "1" [] d = 2 -> "2" [] d = 3 -> "3"
                 [] d = 4 -> "4" [] d = 5 -> "5" [] d = 6 -> "6" [] d = 7 -> "7"
                 [] d = 8 -> "8" [] d = 9 -> "9"

RECURSIVE NumToString(_)
NumToString(n) == IF n < 10 THEN DigitStr(n)
                  ELSE NumToString(n \div 10) \o DigitStr(n % 10)

\* A date string of the API: a calendar day, a minute of that day and the
\* UTC offset (minutes) it is written with; valid = FALSE is a string that
\* new Date() cannot parse.
DateStr(day, min, off) == [valid |-> TRUE, day |-> day, min |-> min, off |-> off]
InvalidDateStr == [valid |-> FALSE, day |-> 0, min |-> 0, off |-> 0]

\* new Date(s): the instant, in minutes since the epoch
ParseDate(s) == s.day * 1440 + s.min - s.off
\* d.toISOString().slice(0, 10): the UTC calendar day of an instant
IsoDay(instant) == instant \div 1440

----------------------------------------------------------------------------
(* Raw fixtures of the external API *)

RawFixture(id, date, home, away, lid, lname, short, long, hgoals, referee) ==
    [shape |-> "object", id |-> id, date |-> date, home |-> home, away |-> away,
     lid |-> lid, lname |-> lname, short |-> short, long |-> long,
     hgoals |-> hgoals, referee |-> referee]

NullFixture ==
    [shape |-> "null", id |-> None, date |-> None, home |-> None, away |-> None,
     lid |-> None, lname |-> None, short |-> None, long |-> None,
     hgoals |-> None, referee |-> None]

\* fixture 1 before kick-off and after full time, a second fixture, a
\* fixture of a league that is not supported, a fixture without home team,
\* a fixture whose date does not parse
F1a == RawFixture(Some(1), Some(DateStr(100, 1200, 0)), Some("A"), Some("B"),
                  Some(39), Some("Premier League"), None, None, None, None)
F1b == RawFixture(Some(1), Some(DateStr(100, 1200, 0)), Some("A"), Some("B"),
                  Some(39), Some("Premier League"), Some("FT"), Some("Match Finished"),
                  Some(2), Some("Ref"))
F12 == RawFixture(Some(12), Some(DateStr(101, 30, 120)), Some("C"), Some("D"),
                  Some(2), Some("Champions League"), Some("NS"), Some("Not Started"),
                  None, None)
FUnsupported == RawFixture(Some(7), Some(DateStr(100, 600, 0)), Some("E"), Some("F"),
                  Some(999), Some("Other"), None, None, None, None)
FNoHome == RawFixture(Some(8), Some(DateStr(100, 600, 0)), None, Some("F"),
                  Some(39), Some("Premier League"), None, None, None, None)
FBadDate == RawFixture(Some(9), Some(InvalidDateStr), Some("G"), Some("H"),
                  Some(39), Some("Premier League"), None, None, None, None)

RawFixtures == {F1a, F1b, F12, FUnsupported, FNoHome, FBadDate, NullFixture}

\* entries that lack the fixture id, have id 0, lack the date, the away
\* team name, the league name, have an empty home team name, carry nothing
\* but a league id, and a complete fixture of a league without id
FNoId == RawFixture(None, Some(DateStr(100, 600, 0)), Some("A"), Some("B"),
                  Some(39), Some("Premier League"), None, None, None, None)
FZeroId == RawFixture(Some(0), Some(DateStr(100, 600, 0)), Some("A"), Some("B"),
                  Some(39), Some("Premier League"), None, None, None, None)
FNoDate == RawFixture(Some(3), None, Some("A"), Some("B"),
                  Some(39), Some("Premier League"), None, None, None, None)
FNoAway == RawFixture(Some(4), Some(DateStr(100, 600, 0)), Some("A"), None,
                  Some(39), Some("Premier League"), None, None, None, None)
FNoLeagueName == RawFixture(Some(5), Some(DateStr(100, 600, 0)), Some("A"), Some("B"),
                  Some(39), None, None, None, None, None)
FEmptyHome == RawFixture(Some(6), Some(DateStr(100, 600, 0)), Some(""), Some("B"),
                  Some(39), Some("Premier League"), None, None, None, None)
FBare == RawFixture(None, None, None, None, Some(39), None, None, None, None, None)
FNoLeagueId == RawFixture(Some(10), Some(DateStr(100, 600, 0)), Some("A"), Some("B"),
                  None, Some("Friendlies"), None, None, None, None)

MalformedFixtures == {FNoId, FZeroId, FNoDate, FNoAway, FNoLeagueName, FEmptyHome,
                      FBare, FNoLeagueId}
\* the entries transformFixtureData and fetchMatchesByDate are tried on
FetchFixtures == RawFixtures \cup MalformedFixtures
\* the fixtures the API answers a sync run with
SyncFixtures == {F1a, FUnsupported, NullFixture}

----------------------------------------------------------------------------
(* SyncService.transformFixtureData and fetchMatchesByDate *)

\* (variant: the test is for undefined, not for falsy values)
MissingRequired_UndefinedOnly(f) ==
    \/ f.id = None
    \/ f.date = None
    \/ f.home = None
    \/ f.away = None
    \/ f.lname = None

\* The required-field test of transformFixtureData
MissingRequired(f) ==
    \/ FalsyNum(f.id)
    \/ f.date = None
    \/ FalsyStr(f.home)
    \/ FalsyStr(f.away)
    \/ FalsyStr(f.lname)

\* The record transformFixtureData builds. The logo, country and venue
\* fields are copied through exactly like referee and are not modelled.
MatchRecord(f) ==
    [match_id        |-> NumToString(f.id[1]),
     external_id     |-> f.id[1],
     league_id       |-> f.lid,
     fixture_date    |-> IsoDay(ParseDate(f.date[1])),
     kickoff_time    |-> ParseDate(f.date[1]),
     status          |-> OrElse(f.short, "NS", FalsyStr(f.short)),
     status_text     |-> OrElse(f.long, "Not Started", FalsyStr(f.long)),
     home_team_name  |-> f.home[1],
     home_team_goals |-> f.hgoals,
     away_team_name  |-> f.away[1],
     competition_name |-> f.lname[1],
     referee         |-> f.referee]

\* transformFixtureData(fixture): None is the null it returns. Destructuring
\* a null entry and toISOString() of an invalid date throw inside the try
\* block and end in the catch block's return null.
TransformFixtureData(f) ==
    IF f.shape = "null" THEN None
    ELSE IF MissingRequired(f) THEN None
    ELSE IF ~f.date[1].valid THEN None
    ELSE Some(MatchRecord(f))

\* The try block of transformFixtureData raises: destructuring a null entry
\* is a TypeError, toISOString() of an invalid Date a RangeError.
TransformRaises(f) ==
    \/ f.shape = "null"
    \/ ~MissingRequired(f) /\ ~f.date[1].valid

\* (variant: no try/catch in transformFixtureData)
TransformEscapes_NoCatch(f) == TransformRaises(f)

\* An exception leaves transformFixtureData: never, the catch block logs
\* and returns null.
TransformEscapes(f) == FALSE

\* (variant: every entry that is an object passes the league filter)
LeagueSupported_Any(f) == f.shape = "object"

\* fixture?.league?.id && SUPPORTED_LEAGUES.includes(fixture.league.id)
LeagueSupported(f) ==
    /\ f.shape = "object"
    /\ ~FalsyNum(f.lid)
    /\ f.lid[1] \in SUPPORTED_LEAGUES

RECURSIVE ValidMatches(_)
ValidMatches(fixtures) ==
    IF fixtures = <<>> THEN <<>>
    ELSE LET f == Head(fixtures)
             t == TransformFixtureData(f)
         IN  (IF LeagueSupported(f) /\ t # None THEN <<t[1]>> ELSE <<>>)
             \o ValidMatches(Tail(fixtures))

\* the entries that pass the first filter of fetchMatchesByDate and are
\* handed to transformFixtureData
RECURSIVE GivenToTransform(_)
GivenToTransform(fixtures) ==
    IF fixtures = <<>> THEN <<>>
    ELSE (IF LeagueSupported(Head(fixtures)) THEN <<Head(fixtures)>> ELSE <<>>)
            \o GivenToTransform(Tail(fixtures))

\* The body of an API response: data.response is a list of fixtures,
\* absent, or something that is not an array.
ResponseList(fixtures) == [kind |-> "array", items |-> fixtures]
ResponseAbsent == [kind |-> "absent", items |-> <<>>]
ResponseNotArray == [kind |-> "object", items |-> <<>>]

RECURSIVE SeqsUpTo(_, _)
SeqsUpTo(S, n) ==
    IF n = 0 THEN {<<>>}
    ELSE LET shorter == SeqsUpTo(S, n - 1)
         IN  shorter \cup {Append(q, x) : q \in shorter, x \in S}

ResponsesOver(F) ==
    {ResponseList(q) : q \in SeqsUpTo(F, MaxPayload)}
        \cup {ResponseAbsent, ResponseNotArray}

\* the bodies a makeApiRequest call is tried on
Responses == ResponsesOver(RawFixtures)
\* the bodies the API answers a date of a sync run with: no list, something
\* else than a list, the empty list, or one fixture
SyncResponses ==
    {ResponseList(<<f>>) : f \in SyncFixtures}
        \cup {ResponseList(<<>>), ResponseAbsent, ResponseNotArray}

\* makeApiRequest's value on success: data.response || []
ApiResult(data) == IF data.kind = "absent" THEN ResponseList(<<>>) ELSE data

\* fetchMatchesByDate once makeApiRequest has returned
FetchedMatches(data) ==
    LET fixtures == ApiResult(data)
    IN  IF fixtures.kind # "array" THEN <<>> ELSE ValidMatches(fixtures.items)

\* (variant: retryCount < MAX_RETRIES)
ShouldRetry_OffByOne(retryCount) == retryCount < MAX_RETRIES

\* makeApiRequest's catch block: another attempt follows this failure
ShouldRetry(retryCount) == retryCount < MAX_RETRIES - 1

\* (variant: a fixed wait, no doubling)
BackoffDelay_Constant(retryCount) == RETRY_DELAY

\* the wait before that attempt
BackoffDelay(retryCount) == RETRY_DELAY * Pow2(retryCount)
\* the message of the ExternalAPIError thrown when no attempt is left
ApiErrorMessage(msg) == "Failed to fetch data from API: " \o msg

\* messages of the errors an attempt can fail with
AttemptErrors == {"HTTP 500: Internal Server Error", "HTTP 429: Too Many Requests",
                  "The user aborted a request."}
\* the message the last attempt fails with in a sync run
SyncErrors == {"HTTP 500: Internal Server Error"}

----------------------------------------------------------------------------
(* MatchService.bulkUpsertMatches over the Match collection *)

\* The document an upsert inserts: the $set fields, the schema default of
\* channels, and both timestamps (matchSchema has timestamps: true).
InsertedDoc(m, t) ==
    [match_id        |-> m.match_id,
     external_id     |-> m.external_id,
     league_id       |-> m.league_id,
     fixture_date    |-> m.fixture_date,
     kickoff_time    |-> m.kickoff_time,
     status          |-> m.status,
     status_text     |-> m.status_text,
     home_team_name  |-> m.home_team_name,
     home_team_goals |-> m.home_team_goals,
     away_team_name  |-> m.away_team_name,
     competition_name |-> m.competition_name,
     referee         |-> m.referee,
     channels        |-> <<>>,
     createdAt       |-> t,
     updatedAt       |-> t]

\* $set of an optional field: an undefined value is stripped from the update
SetOptional(old, new) == IF new = None THEN old ELSE new

\* (variant: the update does not touch updatedAt)
UpdatedDoc_NoTimestamp(doc, m, t) ==
    [doc EXCEPT
        !.match_id        = m.match_id,
        !.external_id     = m.external_id,
        !.league_id       = SetOptional(doc.league_id, m.league_id),
        !.fixture_date    = m.fixture_date,
        !.kickoff_time    = m.kickoff_time,
        !.status          = m.status,
        !.status_text     = m.status_text,
        !.home_team_name  = m.home_team_name,
        !.home_team_goals = SetOptional(doc.home_team_goals, m.home_team_goals),
        !.away_team_name  = m.away_team_name,
        !.competition_name = m.competition_name,
        !.referee         = SetOptional(doc.referee, m.referee)]

\* (variant: the supplied record carries channels: [])
UpdatedDoc_ClearChannels(doc, m, t) ==
    [UpdatedDoc_NoTimestamp(doc, m, t) EXCEPT !.updatedAt = t, !.channels = <<>>]

\* (variant: the stored document is replaced by the supplied record)
UpdatedDoc_Replace(doc, m, t) == InsertedDoc(m, t)

\* The document after { $set: matchData } with the updatedAt timestamp
UpdatedDoc(doc, m, t) ==
    [doc EXCEPT
        !.match_id        = m.match_id,
        !.external_id     = m.external_id,
        !.league_id       = SetOptional(doc.league_id, m.league_id),
        !.fixture_date    = m.fixture_date,
        !.kickoff_time    = m.kickoff_time,
        !.status          = m.status,
        !.status_text     = m.status_text,
        !.home_team_name  = m.home_team_name,
        !.home_team_goals = SetOptional(doc.home_team_goals, m.home_team_goals),
        !.away_team_name  = m.away_team_name,
        !.competition_name = m.competition_name,
        !.referee         = SetOptional(doc.referee, m.referee),
        !.updatedAt       = t]

MinOf(S) == CHOOSE x \in S : \A y \in S : x <= y

\* (variant: the operation inserts without looking for the match_id)
UpdateOneUpsert_AlwaysInsert(res, m, t) ==
    [res EXCEPT !.coll = Append(res.coll, InsertedDoc(m, t)),
                !.upsertedCount = @ + 1]

\* One updateOne { filter: {match_id}, update: {$set}, upsert: true }
\* applied to the collection; res carries the counters of the bulk result.
UpdateOneUpsert(res, m, t) ==
    LET coll == res.coll
        hits == {i \in 1..Len(coll) : coll[i].match_id = m.match_id}
    IN  IF hits = {}
        THEN [res EXCEPT !.coll = Append(coll, InsertedDoc(m, t)),
                         !.upsertedCount = @ + 1]
        ELSE LET i == MinOf(hits)
                 d == UpdatedDoc(coll[i], m, t)
             IN  [res EXCEPT !.coll = [coll EXCEPT ![i] = d],
                             !.modifiedCount = @ + (IF d # coll[i] THEN 1 ELSE 0)]

\* Match.bulkWrite(bulkOps): the operations are applied in order. (The
\* result of the first operation is bound as a value, next, so that it is
\* computed once before the remaining operations are applied to it.)
RECURSIVE BulkWrite(_, _, _)
BulkWrite(res, ops, t) ==
    IF ops = <<>> THEN res
    ELSE CHOOSE out \in {BulkWrite(next, Tail(ops), t) :
                            next \in {UpdateOneUpsert(res, Head(ops), t)}} : TRUE

\* (variant: updated counts every operation of the bulk write)
BulkUpsertMatches_CountsOps(coll, matchesData, t) ==
    IF matchesData = <<>>
    THEN [coll |-> coll, inserted |-> 0, updated |-> 0]
    ELSE LET r == BulkWrite([coll |-> coll, upsertedCount |-> 0, modifiedCount |-> 0],
                            matchesData, t)
         IN  [coll |-> r.coll, inserted |-> r.upsertedCount,
              updated |-> Len(matchesData)]

\* bulkUpsertMatches(matchesData) on collection coll at time t
BulkUpsertMatches(coll, matchesData, t) ==
    IF matchesData = <<>>
    THEN [coll |-> coll, inserted |-> 0, updated |-> 0]
    ELSE LET r == BulkWrite([coll |-> coll, upsertedCount |-> 0, modifiedCount |-> 0],
                            matchesData, t)
         IN  [coll |-> r.coll, inserted |-> r.upsertedCount, updated |-> r.modifiedCount]

\* The collection when bulkWrite fails at operation k + 1: an ordered bulk
\* write has applied the k operations before it.
PartialBulkWrite(coll, matchesData, k, t) ==
    BulkWrite([coll |-> coll, upsertedCount |-> 0, modifiedCount |-> 0],
              SubSeq(matchesData, 1, k), t).coll

----------------------------------------------------------------------------
(* Values of the sync service *)

\* A SyncLog document (models/syncLogModel.js)
NewSyncLog(t) ==
    [sync_date |-> t, status |-> "running", matches_fetched |-> 0,
     matches_updated |-> 0, matches_inserted |-> 0, error_message |-> None]

\* lastSyncStatus: null, the success record or the failure record
NullStatus ==
    [isNull |-> TRUE, success |-> FALSE, message |-> "", error |-> None,
     matches_fetched |-> 0, matches_inserted |-> 0, matches_updated |-> 0]
SuccessStatus(log) ==
    [isNull |-> FALSE, success |-> TRUE, message |-> "Sync completed successfully",
     error |-> None, matches_fetched |-> log.matches_fetched,
     matches_inserted |-> log.matches_inserted,
     matches_updated |-> log.matches_updated]
FailedStatus(msg) ==
    [isNull |-> FALSE, success |-> FALSE, message |-> "Sync failed",
     error |-> Some(msg),
     matches_fetched |-> 0, matches_inserted |-> 0, matches_updated |-> 0]
\* the value returned when a sync is in flight
AlreadyRunningResult ==
    [isNull |-> FALSE, success |-> FALSE, message |-> "Sync is already running",
     error |-> None,
     matches_fetched |-> 0, matches_inserted |-> 0, matches_updated |-> 0]

\* How a syncMatches() call ended for its caller
NoResult == [kind |-> "none", value |-> NullStatus, thrown |-> None]
Returned(v) == [kind |-> "value", value |-> v, thrown |-> None]
Threw(msg) == [kind |-> "throw", value |-> NullStatus, thrown |-> Some(msg)]

\* the message of a rejected database operation
DbError == "MongoNetworkError"

\* getSmartSyncDates(): yesterday, today, tomorrow, as day offsets from today
GetSmartSyncDates == <<-1, 0, 1>>

\* Array.prototype.indexOf
IndexOf(q, x) == MinOf({i \in 1..Len(q) : q[i] = x})

\* The local variables of one syncMatches() call; the fields after result
\* record what the call has done so far (offListSeen: a payload held a
\* fixture of a league that is not supported; offListGiven: such a fixture
\* was handed to transformFixtureData).
IdleRun ==
    [logId |-> 0, log |-> NewSyncLog(0), syncDates |-> <<>>, dateIdx |-> 0,
     allMatches |-> <<>>, err |-> "", result |-> NoResult,
     rateDelays |-> <<>>, fetched |-> 0, fetchFailed |-> FALSE, upserts |-> 0,
     startMatches |-> <<>>, offListSeen |-> FALSE, offListGiven |-> FALSE]

\* One makeApiRequest(url) call: the retryCount of the attempt in progress,
\* and what has happened so far (the errors of the failed attempts, the
\* backoff waits, the body received, the value returned or message thrown).
IdleApi ==
    [state |-> "idle", retryCount |-> 0, errors |-> <<>>, waits |-> <<>>,
     body |-> ResponseAbsent, returned |-> ResponseAbsent, thrown |-> ""]

InFlight(p) == pc[p] \in {"create", "fetch", "upsert", "save", "setting", "catch"}

----------------------------------------------------------------------------
(* Scheduler status: updateSchedulerStatus and computeNextRunDate *)

\* the UTC calendar day on which the dates are planned and the scheduled
\* trigger fires
Today == 100

\* server.js: Number(process.env.SYNC_HOUR || 2), Number(process.env.SYNC_MINUTE || 0)
SYNC_HOUR == 2
SYNC_MINUTE == 0

\* A time zone name: the UTC offset (seconds) of a zone Intl knows, or a
\* name Intl.DateTimeFormat rejects with a RangeError.
Zone(off) == [valid |-> TRUE, off |-> off]
InvalidZone == [valid |-> FALSE, off |-> 0]
Utc == Zone(0)
Algiers == Zone(3600)
NewYork == Zone(-18000)

\* Instants are seconds since the epoch; a wall clock is the instant moved
\* by the offset of its zone.
DayOf(wall) == wall \div 86400
HourOf(wall) == (wall % 86400) \div 3600
MinuteOf(wall) == (wall % 3600) \div 60

\* parseInt of the hour part that Intl.DateTimeFormat('en-US', {hour12:
\* false, hour: '2-digit'}) yields: between midnight and one o'clock the
\* part is "00" or "24", depending on the hour cycle the runtime's locale
\* data resolves hour12: false to (h24 = TRUE: "24").
HourPart(wall, h24) == IF HourOf(wall) = 0 /\ h24 THEN 24 ELSE HourOf(wall)

\* new Date(`${y}-${m}-${d}T${hh}:${mm}:00`): a date-time string without
\* zone designator is read in the zone of the process
ParseLocal(day, hour, minute, procOff) ==
    day * 86400 + hour * 3600 + minute * 60 - procOff

\* the hasPassed closure of computeNextRunDate
HasPassed(nowHour, nowMinute, hour, minute) ==
    IF nowHour > hour THEN TRUE
    ELSE IF nowHour < hour THEN FALSE
    ELSE nowMinute >= minute

\* (variant: no try/catch around the computation)
ComputeNextRunDate_NoCatch(hour, minute, timezone, instant, procOff, h24) ==
    [threw |-> ~timezone.valid, value |-> None]

\* computeNextRunDate(hour, minute, timezone) at clock reading instant in
\* a process whose local zone has offset procOff and whose runtime has hour
\* cycle h24. value is the Date returned, None for null; threw is whether
\* the call threw.
ComputeNextRunDate(hour, minute, timezone, instant, procOff, h24) ==
    IF ~timezone.valid
    THEN [threw |-> FALSE, value |-> None]
    ELSE LET wall == instant + timezone.off
             targetLocal == ParseLocal(DayOf(wall), hour, minute, procOff)
             \* new Date(now.toLocaleString('en-US', {timeZone})): the wall
             \* clock of the target zone read in the zone of the process
             dateInTz == wall - procOff
             nextDay == DayOf(dateInTz + procOff) + 1
         IN  IF HasPassed(HourPart(wall, h24), MinuteOf(wall), hour, minute)
             THEN [threw |-> FALSE,
                   value |-> Some(ParseLocal(nextDay, hour, minute, procOff))]
             ELSE [threw |-> FALSE, value |-> Some(targetLocal)]

\* the scheduler fields after updateSchedulerStatus(enabled, hour, minute,
\* timezone)
UpdateSchedulerStatus(enabled, hour, minute, timezone, instant, procOff, h24) ==
    LET r == ComputeNextRunDate(hour, minute, timezone, instant, procOff, h24)
    IN  [enabled |-> enabled,
         nextRun |-> IF enabled THEN r.value ELSE None,
         threw   |-> enabled /\ r.threw,
         fresh   |-> TRUE,
         after   |-> "none",
         args    |-> Some([enabled |-> enabled, hour |-> hour, minute |-> minute,
                           timezone |-> timezone, instant |-> instant,
                           procOff |-> procOff, h24 |-> h24])]

\* No transformFixtureData() / fetchMatchesByDate() call yet. Of a call:
\* the fixture or response body it was given, the fixtures that reached
\* transformFixtureData, what was returned, and whether the call threw.
NoFetch ==
    [op |-> "none", fixture |-> NullFixture, body |-> ResponseAbsent,
     given |-> <<>>, result |-> None, valid |-> <<>>, threw |-> FALSE]

\* the payloads fetchMatchesByDate is tried on
FetchResponses ==
    {ResponseList(q) : q \in SeqsUpTo(FetchFixtures, MaxEntries)}
        \cup {ResponseAbsent, ResponseNotArray}

\* No getSmartSyncDates() call yet
NoPlan == [by |-> "none", today |-> 0, dates |-> <<>>]

\* The scheduler fields as the constructor sets them; args are the
\* arguments and clock of the updateSchedulerStatus call that set the fields,
\* threw whether that call threw, fresh whether it came after the last
\* firing of the scheduled trigger, after the outcome of the sync that the
\* trigger handler had awaited when it made the call.
NoSchedule ==
    [enabled |-> FALSE, nextRun |-> None, threw |-> FALSE, fresh |-> TRUE,
     after |-> "none", args |-> None]

\* the Channel collection at the start, and the ids a link request may carry
StoredChannels == {"c1"}
ChannelIds == StoredChannels \cup {"c9"}

\* One linkChannelsToMatch(match_id, channelIds) call: the point it has
\* reached, its arguments, the Match document it has loaded, and how it
\* ended (the error class thrown, or "ok").
IdleLink ==
    [pc |-> "idle", match_id |-> "", channelIds |-> <<>>, doc |-> None,
     outcome |-> "none"]

\* One deleteChannel(id) call: the point it has reached, its argument and
\* how it ended.
IdleDelete == [pc |-> "idle", id |-> "", outcome |-> "none"]

\* the admin requests: the link and the deletion in flight, and the last
\* request the admin router has dispatched with its answer (none yet)
NoAdmin == [link |-> IdleLink, del |-> IdleDelete, http |-> None]

----------------------------------------------------------------------------
(* Initial state: the service as constructed, the Match and SyncLog
   collections empty, the channels of StoredChannels stored *)

Init ==
    /\ isRunning = FALSE
    /\ totalRuns = 0
    /\ lastSyncStatus = NullStatus
    /\ lastError = None
    /\ syncLogs = <<>>
    /\ matches = <<>>
    /\ lastSyncDate = None
    /\ now = 0
    /\ pc = [p \in Callers |-> "idle"]
    /\ run = [p \in Callers |-> IdleRun]
    /\ api = IdleApi
    /\ calls = <<>>
    /\ plan = NoPlan
    /\ fetch = NoFetch
    /\ sched = NoSchedule
    /\ Channel = StoredChannels
    /\ admin = NoAdmin

----------------------------------------------------------------------------
(* syncMatches() *)

\* The scheduled trigger fires: the cron handler calls startDailySync(),
\* i.e. syncMatches(). The route handler of POST /sync does not touch the
\* scheduler fields.
TriggerFired(p) == IF p = "cron" THEN [sched EXCEPT !.fresh = FALSE] ELSE sched

\* (variant: the guard is missing)
AlreadyRunning_Never == FALSE

\* the guard: if (this.isRunning)
AlreadyRunning == isRunning

\* (variant: the counter is incremented before the guard)
InvokeRejected_Counted(p) ==
    /\ pc[p] = "idle"
    /\ AlreadyRunning
    /\ totalRuns < MaxRuns
    /\ totalRuns' = totalRuns + 1
    /\ pc' = [pc EXCEPT ![p] = "returned"]
    /\ run' = [run EXCEPT ![p] = [IdleRun EXCEPT !.result = Returned(AlreadyRunningResult)]]
    /\ sched' = TriggerFired(p)
    /\ UNCHANGED <<Channel, admin, fetch, plan, isRunning, lastSyncStatus, lastError, syncLogs,
                   matches, lastSyncDate, now, api, calls>>

\* The call is rejected: nothing but the caller's result changes.
InvokeRejected(p) ==
    /\ pc[p] = "idle"
    /\ AlreadyRunning
    /\ pc' = [pc EXCEPT ![p] = "returned"]
    /\ run' = [run EXCEPT ![p] = [IdleRun EXCEPT !.result = Returned(AlreadyRunningResult)]]
    /\ sched' = TriggerFired(p)
    /\ UNCHANGED <<Channel, admin, fetch, plan, isRunning, totalRuns, lastSyncStatus, lastError, syncLogs,
                   matches, lastSyncDate, now, api, calls>>

\* The call passes the guard: isRunning = true, totalRuns += 1, up to the
\* first await (SyncLog.create).
InvokeAccepted(p) ==
    /\ pc[p] = "idle"
    /\ ~AlreadyRunning
    /\ totalRuns < MaxRuns
    /\ isRunning' = TRUE
    /\ totalRuns' = totalRuns + 1
    /\ pc' = [pc EXCEPT ![p] = "create"]
    /\ run' = [run EXCEPT ![p] = [IdleRun EXCEPT !.startMatches = matches]]
    /\ sched' = TriggerFired(p)
    /\ UNCHANGED <<Channel, admin, fetch, plan, lastSyncStatus, lastError, syncLogs, matches, lastSyncDate,
                   now, api, calls>>

\* SyncLog.create resolves; getSmartSyncDates() plans the dates.
CreateLogOk(p) ==
    /\ pc[p] = "create"
    /\ syncLogs' = Append(syncLogs, NewSyncLog(now))
    /\ run' = [run EXCEPT ![p].logId = Len(syncLogs) + 1,
                          ![p].log = NewSyncLog(now),
                          ![p].syncDates = GetSmartSyncDates,
                          ![p].dateIdx = 1]
    /\ pc' = [pc EXCEPT ![p] = "fetch"]
    /\ UNCHANGED <<Channel, admin, fetch, plan, sched, isRunning, totalRuns, lastSyncStatus, lastError, matches,
                   lastSyncDate, now, api, calls>>

\* SyncLog.create rejects: log stays undefined.
CreateLogFails(p) ==
    /\ pc[p] = "create"
    /\ run' = [run EXCEPT ![p].err = DbError]
    /\ pc' = [pc EXCEPT ![p] = "catch"]
    /\ UNCHANGED <<Channel, admin, fetch, plan, sched, isRunning, totalRuns, lastSyncStatus, lastError, syncLogs,
                   matches, lastSyncDate, now, api, calls>>

\* an entry with a league id that is not in SUPPORTED_LEAGUES
OffList(f) == f.shape = "object" /\ f.lid # None /\ f.lid[1] \notin SUPPORTED_LEAGUES

\* (variant: the delay follows every date, the last one included)
DelayFollows_Always(syncDates, date) == TRUE

\* the test of the loop body: syncDates.indexOf(date) < syncDates.length - 1
DelayFollows(syncDates, date) == IndexOf(syncDates, date) < Len(syncDates)

\* fetchMatchesByDate(date) resolves: makeApiRequest has returned body
\* data, fetchMatchesByDate filters and transforms, the loop of syncMatches
\* appends and either waits RATE_LIMIT_DELAY and goes to the next date or
\* leaves the loop and sets log.matches_fetched.
FetchOk(p, data) ==
    /\ pc[p] = "fetch"
    /\ LET r == run[p]
           date == r.syncDates[r.dateIdx]
           all == r.allMatches \o FetchedMatches(data)
           more == r.dateIdx < Len(r.syncDates)
           delay == DelayFollows(r.syncDates, date)
           items == IF ApiResult(data).kind = "array" THEN ApiResult(data).items
                    ELSE <<>>
           given == GivenToTransform(items)
       IN  /\ run' = [run EXCEPT
                        ![p].allMatches = all,
                        ![p].fetched = @ + 1,
                        ![p].offListSeen =
                            @ \/ \E i \in 1..Len(items) : OffList(items[i]),
                        ![p].offListGiven =
                            @ \/ \E i \in 1..Len(given) : OffList(given[i]),
                        ![p].dateIdx = IF more THEN @ + 1 ELSE @,
                        ![p].rateDelays = IF delay THEN Append(@, RATE_LIMIT_DELAY)
                                                   ELSE @,
                        ![p].log = IF more THEN @
                                   ELSE [@ EXCEPT !.matches_fetched = Len(all)]]
           /\ pc' = [pc EXCEPT ![p] = IF more THEN "fetch" ELSE "upsert"]
    /\ UNCHANGED <<Channel, admin, fetch, plan, sched, isRunning, totalRuns, lastSyncStatus, lastError, syncLogs,
                   matches, lastSyncDate, now, api, calls>>

\* fetchMatchesByDate(date) rejects: makeApiRequest has used up its
\* attempts, the last one failing with message e, and ExternalAPIError
\* leaves the loop.
FetchFails(p, e) ==
    /\ pc[p] = "fetch"
    /\ run' = [run EXCEPT ![p].fetchFailed = TRUE,
                          ![p].err = ApiErrorMessage(e)]
    /\ pc' = [pc EXCEPT ![p] = "catch"]
    /\ UNCHANGED <<Channel, admin, fetch, plan, sched, isRunning, totalRuns, lastSyncStatus, lastError, syncLogs,
                   matches, lastSyncDate, now, api, calls>>

\* bulkUpsertMatches(allMatches) resolves; the counters and status
\* 'completed' are set on the in-memory log.
UpsertOk(p) ==
    /\ pc[p] = "upsert"
    /\ LET r == BulkUpsertMatches(matches, run[p].allMatches, now)
       IN  /\ matches' = r.coll
           /\ run' = [run EXCEPT
                        ![p].upserts = @ + 1,
                        ![p].log = [@ EXCEPT !.matches_inserted = r.inserted,
                                             !.matches_updated = r.updated,
                                             !.status = "completed"]]
    /\ pc' = [pc EXCEPT ![p] = "save"]
    /\ UNCHANGED <<Channel, admin, fetch, plan, sched, isRunning, totalRuns, lastSyncStatus, lastError, syncLogs,
                   lastSyncDate, now, api, calls>>

\* Match.bulkWrite rejects at operation k + 1.
UpsertFails(p, k) ==
    /\ pc[p] = "upsert"
    /\ k \in 0..(Len(run[p].allMatches) - 1)
    /\ matches' = PartialBulkWrite(matches, run[p].allMatches, k, now)
    /\ run' = [run EXCEPT ![p].upserts = @ + 1, ![p].err = DbError]
    /\ pc' = [pc EXCEPT ![p] = "catch"]
    /\ UNCHANGED <<Channel, admin, fetch, plan, sched, isRunning, totalRuns, lastSyncStatus, lastError, syncLogs,
                   lastSyncDate, now, api, calls>>

\* log.save() with status 'completed' resolves.
SaveOk(p) ==
    /\ pc[p] = "save"
    /\ syncLogs' = [syncLogs EXCEPT ![run[p].logId] = run[p].log]
    /\ pc' = [pc EXCEPT ![p] = "setting"]
    /\ UNCHANGED <<Channel, admin, fetch, plan, sched, isRunning, totalRuns, lastSyncStatus, lastError, matches,
                   lastSyncDate, now, run, api, calls>>

\* log.save() with status 'completed' rejects.
SaveFails(p) ==
    /\ pc[p] = "save"
    /\ run' = [run EXCEPT ![p].err = DbError]
    /\ pc' = [pc EXCEPT ![p] = "catch"]
    /\ UNCHANGED <<Channel, admin, fetch, plan, sched, isRunning, totalRuns, lastSyncStatus, lastError, syncLogs,
                   matches, lastSyncDate, now, api, calls>>

\* AppSetting.updateOne resolves; lastSyncStatus, lastError, the finally
\* block and the return follow without another await.
SettingOk(p) ==
    /\ pc[p] = "setting"
    /\ lastSyncDate' = Some(now)
    /\ lastSyncStatus' = SuccessStatus(run[p].log)
    /\ lastError' = None
    /\ isRunning' = FALSE
    /\ run' = [run EXCEPT ![p].result = Returned(SuccessStatus(run[p].log))]
    /\ pc' = [pc EXCEPT ![p] = "returned"]
    /\ UNCHANGED <<Channel, admin, fetch, plan, sched, totalRuns, syncLogs, matches, now, api, calls>>

\* (variant: the setting is written before the steps that can still fail)
SettingFails_AfterWrite(p) ==
    /\ pc[p] = "setting"
    /\ lastSyncDate' = Some(now)
    /\ run' = [run EXCEPT ![p].err = DbError]
    /\ pc' = [pc EXCEPT ![p] = "catch"]
    /\ UNCHANGED <<Channel, admin, fetch, plan, sched, isRunning, totalRuns, lastSyncStatus, lastError, syncLogs,
                   matches, now, api, calls>>

\* AppSetting.updateOne rejects.
SettingFails(p) ==
    /\ pc[p] = "setting"
    /\ run' = [run EXCEPT ![p].err = DbError]
    /\ pc' = [pc EXCEPT ![p] = "catch"]
    /\ UNCHANGED <<Channel, admin, fetch, plan, sched, isRunning, totalRuns, lastSyncStatus, lastError, syncLogs,
                   matches, lastSyncDate, now, api, calls>>

\* The catch block when SyncLog.create had failed (log is undefined),
\* the finally block and the return.
CatchNoLog(p) ==
    /\ pc[p] = "catch"
    /\ run[p].logId = 0
    /\ lastSyncStatus' = FailedStatus(run[p].err)
    /\ lastError' = Some(run[p].err)
    /\ isRunning' = FALSE
    /\ run' = [run EXCEPT ![p].result = Returned(FailedStatus(run[p].err))]
    /\ pc' = [pc EXCEPT ![p] = "returned"]
    /\ UNCHANGED <<Channel, admin, fetch, plan, sched, totalRuns, syncLogs, matches, lastSyncDate, now, api, calls>>

\* The catch block: log.save() with status 'failed' resolves; then
\* lastSyncStatus, lastError, the finally block and the return.
CatchSaveOk(p) ==
    /\ pc[p] = "catch"
    /\ run[p].logId # 0
    /\ LET failed == [run[p].log EXCEPT !.status = "failed",
                                        !.error_message = Some(run[p].err)]
       IN  /\ syncLogs' = [syncLogs EXCEPT ![run[p].logId] = failed]
           /\ run' = [run EXCEPT ![p].log = failed,
                                 ![p].result = Returned(FailedStatus(run[p].err))]
    /\ lastSyncStatus' = FailedStatus(run[p].err)
    /\ lastError' = Some(run[p].err)
    /\ isRunning' = FALSE
    /\ pc' = [pc EXCEPT ![p] = "returned"]
    /\ UNCHANGED <<Channel, admin, fetch, plan, sched, totalRuns, matches, lastSyncDate, now, api, calls>>

\* (variant: isRunning = false at the end of the catch block, no finally)
CatchSaveThrows_NoFinally(p) ==
    /\ pc[p] = "catch"
    /\ run[p].logId # 0
    /\ run' = [run EXCEPT ![p].log = [@ EXCEPT !.status = "failed",
                                               !.error_message = Some(run[p].err)],
                          ![p].result = Threw(DbError)]
    /\ pc' = [pc EXCEPT ![p] = "returned"]
    /\ UNCHANGED <<Channel, admin, fetch, plan, sched, isRunning, totalRuns, lastSyncStatus, lastError, syncLogs,
                   matches, lastSyncDate, now, api, calls>>

\* The catch block: log.save() with status 'failed' rejects. The error
\* leaves the catch block, the finally block runs, and the error reaches
\* the caller of syncMatches().
CatchSaveThrows(p) ==
    /\ pc[p] = "catch"
    /\ run[p].logId # 0
    /\ run' = [run EXCEPT ![p].log = [@ EXCEPT !.status = "failed",
                                               !.error_message = Some(run[p].err)],
                          ![p].result = Threw(DbError)]
    /\ isRunning' = FALSE
    /\ pc' = [pc EXCEPT ![p] = "returned"]
    /\ UNCHANGED <<Channel, admin, fetch, plan, sched, totalRuns, lastSyncStatus, lastError, syncLogs, matches,
                   lastSyncDate, now, api, calls>>

\* the clock when the cron handler has the outcome (the trigger fires at
\* SYNC_HOUR:SYNC_MINUTE of the default zone), and the zone and hour cycle
\* of the server process
CronInstant == ParseLocal(Today, SYNC_HOUR, SYNC_MINUTE, Algiers.off)
ServerZone == [off |-> Utc.off, h24 |-> FALSE]

\* how the awaited syncMatches() call ended: with a result value (sync
\* completed, failed or rejected) in the try block, or with an error in
\* the catch block
OutcomeOf(result) == IF result.kind = "throw" THEN "throw" ELSE "value"

\* the scheduler fields after the cron handler's updateSchedulerStatus(true,
\* syncHour, syncMinute, timezone), called at the end of its try block and
\* in its catch block
CronUpdate(result) ==
    [UpdateSchedulerStatus(TRUE, SYNC_HOUR, SYNC_MINUTE, Algiers, CronInstant,
                           ServerZone.off, ServerZone.h24)
        EXCEPT !.after = OutcomeOf(result)]

\* (variant: the catch block of the cron handler does not update)
Return_NoUpdateInCatch(p) ==
    /\ pc[p] = "returned"
    /\ pc' = [pc EXCEPT ![p] = "idle"]
    /\ run' = [run EXCEPT ![p] = IdleRun]
    /\ sched' = IF p = "cron" /\ run[p].result.kind # "throw"
                THEN CronUpdate(run[p].result) ELSE sched
    /\ UNCHANGED <<Channel, admin, fetch, plan, isRunning, totalRuns, lastSyncStatus, lastError, syncLogs,
                   matches, lastSyncDate, now, api, calls>>

\* The caller has the outcome and its handler finishes: the route handler
\* of POST /sync answers (with the result, or through next(error)); the
\* cron handler calls updateSchedulerStatus, after the await in its try
\* block or in its catch block.
Return(p) ==
    /\ pc[p] = "returned"
    /\ pc' = [pc EXCEPT ![p] = "idle"]
    /\ run' = [run EXCEPT ![p] = IdleRun]
    /\ sched' = IF p = "cron" THEN CronUpdate(run[p].result) ELSE sched
    /\ UNCHANGED <<Channel, admin, fetch, plan, isRunning, totalRuns, lastSyncStatus, lastError, syncLogs,
                   matches, lastSyncDate, now, api, calls>>

\* The steps of a call that has passed the guard
RunStep(p) ==
    \/ CreateLogOk(p)
    \/ CreateLogFails(p)
    \/ \E data \in SyncResponses : FetchOk(p, data)
    \/ \E e \in SyncErrors : FetchFails(p, e)
    \/ UpsertOk(p)
    \/ \E k \in 0..Len(GetSmartSyncDates) : UpsertFails(p, k)
    \/ SaveOk(p)
    \/ SaveFails(p)
    \/ SettingOk(p)
    \/ SettingFails(p)
    \/ CatchNoLog(p)
    \/ CatchSaveOk(p)
    \/ CatchSaveThrows(p)

Next ==
    \/ \E p \in Callers : InvokeRejected(p)
    \/ \E p \in Callers : InvokeAccepted(p)
    \/ \E p \in Callers : RunStep(p)
    \/ \E p \in Callers : Return(p)

\* The sync service and its callers. The clock does not advance in Spec:
\* every timestamp a run writes is the same instant.
Spec == Init /\ [][Next]_vars

\* Every await of a call in flight settles: the awaited operation resolves
\* or rejects (the HTTP request within TIMEOUT).
FairSpec == Spec /\ \A p \in Callers : WF_vars(RunStep(p))

----------------------------------------------------------------------------
(* makeApiRequest(url, retryCount = 0), attempt by attempt *)

\* makeApiRequest(url) is called.
ApiCall ==
    /\ api.state \in {"idle", "returned", "threw"}
    /\ api' = [IdleApi EXCEPT !.state = "attempt"]
    /\ UNCHANGED <<Channel, admin, fetch, plan, sched, isRunning, totalRuns, lastSyncStatus, lastError, syncLogs,
                   matches, lastSyncDate, now, pc, run, calls>>

\* The attempt gets a 2xx response with JSON body data: return data.response || [].
ApiAttemptOk(data) ==
    /\ api.state = "attempt"
    /\ api' = [api EXCEPT !.state = "returned", !.body = data,
                          !.returned = ApiResult(data)]
    /\ UNCHANGED <<Channel, admin, fetch, plan, sched, isRunning, totalRuns, lastSyncStatus, lastError, syncLogs,
                   matches, lastSyncDate, now, pc, run, calls>>

\* The attempt fails with message e (non-2xx, network error, abort after
\* TIMEOUT): the catch block waits and calls makeApiRequest(url, retryCount + 1),
\* or throws ExternalAPIError.
ApiAttemptFails(e) ==
    /\ api.state = "attempt"
    /\ api' = IF ShouldRetry(api.retryCount)
              THEN [api EXCEPT !.errors = Append(@, e),
                               !.waits = Append(@, BackoffDelay(api.retryCount)),
                               !.retryCount = @ + 1]
              ELSE [api EXCEPT !.errors = Append(@, e),
                               !.state = "threw",
                               !.thrown = ApiErrorMessage(e)]
    /\ UNCHANGED <<Channel, admin, fetch, plan, sched, isRunning, totalRuns, lastSyncStatus, lastError, syncLogs,
                   matches, lastSyncDate, now, pc, run, calls>>

NextApi ==
    \/ ApiCall
    \/ \E data \in Responses : ApiAttemptOk(data)
    \/ \E e \in AttemptErrors : ApiAttemptFails(e)

SpecApi == Init /\ [][NextApi]_vars

----------------------------------------------------------------------------
(* bulkUpsertMatches(matchesData) called on its own, with time passing *)

\* the records transformFixtureData yields for the fixtures of the model
UpsertInputs == {TransformFixtureData(f)[1] :
                    f \in {g \in RawFixtures : TransformFixtureData(g) # None}}

\* bulkUpsertMatches(data) is called and resolves.
UpsertCall(data) ==
    /\ Len(calls) < MaxCalls
    /\ LET r == BulkUpsertMatches(matches, data, now)
       IN  /\ matches' = r.coll
           /\ calls' = Append(calls, [data |-> data, inserted |-> r.inserted,
                                      updated |-> r.updated, before |-> matches,
                                      after |-> r.coll, at |-> now])
    /\ UNCHANGED <<Channel, admin, fetch, plan, sched, isRunning, totalRuns, lastSyncStatus, lastError, syncLogs,
                   lastSyncDate, now, pc, run, api>>

\* The clock advances.
Tick ==
    /\ now < MaxClock
    /\ now' = now + 1
    /\ UNCHANGED <<Channel, admin, fetch, plan, sched, isRunning, totalRuns, lastSyncStatus, lastError, syncLogs,
                   matches, lastSyncDate, pc, run, api, calls>>

\* the match_ids of a list of records, and of a set of lists
IdsOf(q) == {q[i].match_id : i \in 1..Len(q)}
IdsOfLists(L) == UNION {IdsOf(q) : q \in L}

\* lists in which a match_id occurs more than once: the same fixture fetched
\* for two dates, before and after full time, and around another fixture
DuplicateLists ==
    LET r1a == TransformFixtureData(F1a)[1]
        r1b == TransformFixtureData(F1b)[1]
        r12 == TransformFixtureData(F12)[1]
    IN  {<<r1a, r1b>>, <<r1b, r12, r1a>>}

\* the lists bulkUpsertMatches is called with
UpsertLists == SeqsUpTo(UpsertInputs, MaxList) \cup DuplicateLists

\* linkChannelsToMatch(match_id, channelIds) resolves: the match is stored
\* and Channel.find({_id: {$in: channelIds}}) returns as many channels as
\* ids were given; match.channels is assigned and the document saved (a
\* save that changes the document refreshes updatedAt). Otherwise the
\* call throws NotFoundError and writes nothing.
LinkChannelsToMatch(match_id, channelIds) ==
    /\ \E i \in 1..Len(matches) : matches[i].match_id = match_id
    /\ LET i == MinOf({j \in 1..Len(matches) : matches[j].match_id = match_id})
           found == {c \in StoredChannels : \E k \in 1..Len(channelIds) : channelIds[k] = c}
       IN  /\ Len(channelIds) > 0 => Cardinality(found) = Len(channelIds)
           /\ matches[i].channels # channelIds
           /\ matches' = [matches EXCEPT ![i].channels = channelIds,
                                         ![i].updatedAt = now]
    /\ UNCHANGED <<Channel, admin, fetch, plan, sched, isRunning, totalRuns, lastSyncStatus, lastError, syncLogs,
                   lastSyncDate, now, pc, run, api, calls>>

NextUpsert ==
    \/ \E data \in UpsertLists : UpsertCall(data)
    \/ Tick

SpecUpsert == Init /\ [][NextUpsert]_vars

\* Sync and the admin's channel linking on one match: fixture 1 is upserted
\* before kick-off and after full time, and linked to channels in between.
LinkedUpserts == {<<TransformFixtureData(F1a)[1]>>, <<TransformFixtureData(F1b)[1]>>}

NextLink ==
    \/ \E data \in LinkedUpserts : UpsertCall(data)
    \/ \E id \in IdsOfLists(LinkedUpserts),
          channelIds \in SeqsUpTo(ChannelIds, MaxChannels) :
            LinkChannelsToMatch(id, channelIds)
    \/ Tick

SpecLink == Init /\ [][NextLink]_vars

----------------------------------------------------------------------------
(* The admin requests, await by await: linkChannelsToMatch (matchService)
   and deleteChannel (channelService). Database operations resolve. *)

\* the stored Match documents with the given match_id
MatchHits(match_id) == {i \in 1..Len(matches) : matches[i].match_id = match_id}

\* a link request with the same stored channel named twice
DuplicateIds == {<<c, c>> : c \in StoredChannels}

\* the channel_ids a link request may carry (validated as an array of ids)
LinkRequests == SeqsUpTo(ChannelIds, MaxChannels) \cup DuplicateIds

\* linkChannelsToMatch is called; Match.findOne({ match_id }) resolves:
\* NotFoundError without a match; otherwise the document is loaded and,
\* for a non-empty channelIds, Channel.find is awaited next.
LinkFindMatch(match_id, channelIds) ==
    /\ admin.link.pc = "idle"
    /\ LET hits == MatchHits(match_id)
           call == [IdleLink EXCEPT !.match_id = match_id,
                                    !.channelIds = channelIds]
       IN  admin' = [admin EXCEPT !.link =
                IF hits = {}
                THEN [call EXCEPT !.pc = "done", !.outcome = "NotFoundError"]
                ELSE [call EXCEPT !.doc = Some(matches[MinOf(hits)]),
                                  !.pc = IF Len(channelIds) > 0 THEN "find"
                                                                ELSE "save"]]
    /\ UNCHANGED <<Channel, fetch, plan, sched, isRunning, totalRuns, lastSyncStatus,
                   lastError, syncLogs, matches, lastSyncDate, now, pc, run, api,
                   calls>>

\* the channels Channel.find({ _id: { $in: channelIds } }) returns
FoundChannels(coll, channelIds) ==
    {c \in coll : \E k \in 1..Len(channelIds) : channelIds[k] = c}

\* the test channels.length !== channelIds.length
CountMismatch(found, channelIds) == Cardinality(found) # Len(channelIds)

\* Channel.find resolves: NotFoundError when the number of channels found
\* differs from the number of ids given; otherwise match.channels is
\* assigned and match.save() awaited.
LinkFindChannels ==
    /\ admin.link.pc = "find"
    /\ LET found == FoundChannels(Channel, admin.link.channelIds)
       IN  admin' = [admin EXCEPT !.link =
                IF CountMismatch(found, admin.link.channelIds)
                THEN [@ EXCEPT !.pc = "done", !.outcome = "NotFoundError"]
                ELSE [@ EXCEPT !.pc = "save"]]
    /\ UNCHANGED <<Channel, fetch, plan, sched, isRunning, totalRuns, lastSyncStatus,
                   lastError, syncLogs, matches, lastSyncDate, now, pc, run, api,
                   calls>>

\* match.save() resolves, then getMatchById and the return. save() writes
\* the paths modified on the loaded document: channels (and updatedAt)
\* when the assigned list differs from the loaded one; when it is the
\* same list, whether the path counts as modified is left open.
LinkSave ==
    /\ admin.link.pc = "save"
    /\ LET l == admin.link
           modified == l.doc[1].channels # l.channelIds
       IN  \E sent \in (IF modified THEN {TRUE} ELSE {TRUE, FALSE}) :
            matches' = [i \in 1..Len(matches) |->
                IF i = MinOf(MatchHits(l.match_id)) /\ sent
                THEN [matches[i] EXCEPT !.channels = l.channelIds,
                                        !.updatedAt = now]
                ELSE matches[i]]
    /\ admin' = [admin EXCEPT !.link.pc = "done", !.link.outcome = "ok"]
    /\ UNCHANGED <<Channel, fetch, plan, sched, isRunning, totalRuns, lastSyncStatus,
                   lastError, syncLogs, lastSyncDate, now, pc, run, api, calls>>

\* the route handler answers; the next link request may come
LinkReturn ==
    /\ admin.link.pc = "done"
    /\ admin' = [admin EXCEPT !.link = IdleLink]
    /\ UNCHANGED <<Channel, fetch, plan, sched, isRunning, totalRuns, lastSyncStatus,
                   lastError, syncLogs, matches, lastSyncDate, now, pc, run, api,
                   calls>>

\* deleteChannel(id) is called; getChannelById(id) resolves: NotFoundError
\* when no such channel is stored, otherwise Match.updateMany is awaited.
DeleteFindChannel(id) ==
    /\ admin.del.pc = "idle"
    /\ admin' = [admin EXCEPT !.del =
            IF id \in Channel
            THEN [IdleDelete EXCEPT !.id = id, !.pc = "pull"]
            ELSE [IdleDelete EXCEPT !.id = id, !.pc = "done",
                                    !.outcome = "NotFoundError"]]
    /\ UNCHANGED <<Channel, fetch, plan, sched, isRunning, totalRuns, lastSyncStatus,
                   lastError, syncLogs, matches, lastSyncDate, now, pc, run, api,
                   calls>>

\* $pull: { channels: id } on one document
Pull(doc, id, t) ==
    [doc EXCEPT !.channels = SelectSeq(@, LAMBDA c : c # id), !.updatedAt = t]

\* Match.updateMany({}, { $pull: { channels: id } }) resolves.
DeletePull ==
    /\ admin.del.pc = "pull"
    /\ matches' = [i \in 1..Len(matches) |-> Pull(matches[i], admin.del.id, now)]
    /\ admin' = [admin EXCEPT !.del.pc = "delete"]
    /\ UNCHANGED <<Channel, fetch, plan, sched, isRunning, totalRuns, lastSyncStatus,
                   lastError, syncLogs, lastSyncDate, now, pc, run, api, calls>>

\* Channel.findByIdAndDelete(id) resolves and deleteChannel returns.
DeleteRemove ==
    /\ admin.del.pc = "delete"
    /\ Channel' = Channel \ {admin.del.id}
    /\ admin' = [admin EXCEPT !.del.pc = "done", !.del.outcome = "ok"]
    /\ UNCHANGED <<fetch, plan, sched, isRunning, totalRuns, lastSyncStatus,
                   lastError, syncLogs, matches, lastSyncDate, now, pc, run, api,
                   calls>>

\* Link requests, one at a time, on a store that sync fills
NextLinkSteps ==
    \/ \E data \in LinkedUpserts : UpsertCall(data)
    \/ \E id \in IdsOfLists(LinkedUpserts) \cup {"0"}, channelIds \in LinkRequests :
            LinkFindMatch(id, channelIds)
    \/ LinkFindChannels
    \/ LinkSave
    \/ LinkReturn

SpecLinkSteps == Init /\ [][NextLinkSteps]_vars

\* Link requests and one channel deletion, interleaved at their awaits
NextAdmin ==
    \/ \E data \in LinkedUpserts : UpsertCall(data)
    \/ \E id \in IdsOfLists(LinkedUpserts), channelIds \in LinkRequests :
            LinkFindMatch(id, channelIds)
    \/ LinkFindChannels
    \/ LinkSave
    \/ LinkReturn
    \/ \E id \in ChannelIds : DeleteFindChannel(id)
    \/ DeletePull
    \/ DeleteRemove

SpecAdmin == Init /\ [][NextAdmin]_vars

----------------------------------------------------------------------------
(* getSmartSyncDates() over a populated store *)

\* the days around it on which the store may hold matches
PlanWindow == (Today - 1)..(Today + 7)

\* a stored match played on the given day
MatchOn(day) ==
    InsertedDoc([MatchRecord(F1a) EXCEPT !.match_id = NumToString(day),
                                        !.external_id = day,
                                        !.fixture_date = day,
                                        !.kickoff_time = day * 1440 + 1200], 0)

RECURSIVE StoreOn(_)
StoreOn(days) ==
    IF days = {} THEN <<>>
    ELSE LET d == MinOf(days) IN <<MatchOn(d)>> \o StoreOn(days \ {d})

\* the service, with matches stored for some of the days
InitPlan ==
    /\ isRunning = FALSE
    /\ totalRuns = 0
    /\ lastSyncStatus = NullStatus
    /\ lastError = None
    /\ syncLogs = <<>>
    /\ matches \in {StoreOn(days) : days \in SUBSET PlanWindow}
    /\ lastSyncDate = None
    /\ now = 0
    /\ pc = [p \in Callers |-> "idle"]
    /\ run = [p \in Callers |-> IdleRun]
    /\ api = IdleApi
    /\ calls = <<>>
    /\ plan = NoPlan
    /\ fetch = NoFetch
    /\ sched = NoSchedule
    /\ Channel = StoredChannels
    /\ admin = NoAdmin

\* matchService.hasMatchesForDate(date): a match whose fixture_date lies
\* within the UTC day is stored
HasMatchesForDate(coll, day) ==
    \E i \in 1..Len(coll) : coll[i].fixture_date = day

\* the loop of services/syncService.js: for (let i = 0; i <= 6; i++)
RECURSIVE MissingDays(_, _, _)
MissingDays(coll, today, i) ==
    IF i > 6 THEN <<>>
    ELSE (IF HasMatchesForDate(coll, today + i) THEN <<>> ELSE <<today + i>>)
            \o MissingDays(coll, today, i + 1)

\* getSmartSyncDates() of services/syncService.js
GetSmartSyncDatesByStore(coll, today) == <<today - 1>> \o MissingDays(coll, today, 0)

\* getSmartSyncDates() of the service that syncMatches() above belongs to
\* is called.
PlanDates ==
    /\ plan' = [by |-> "fixed", today |-> Today,
                dates |-> [k \in 1..Len(GetSmartSyncDates) |->
                              Today + GetSmartSyncDates[k]]]
    /\ UNCHANGED <<Channel, admin, isRunning, totalRuns, lastSyncStatus, lastError, syncLogs,
                   matches, lastSyncDate, now, pc, run, api, calls, sched, fetch>>

\* getSmartSyncDates() of services/syncService.js is called.
PlanDatesByStore ==
    /\ plan' = [by |-> "store", today |-> Today,
                dates |-> GetSmartSyncDatesByStore(matches, Today)]
    /\ UNCHANGED <<Channel, admin, isRunning, totalRuns, lastSyncStatus, lastError, syncLogs,
                   matches, lastSyncDate, now, pc, run, api, calls, sched, fetch>>

NextPlan ==
    \/ PlanDates
    \/ PlanDatesByStore

SpecPlan == InitPlan /\ [][NextPlan]_vars

----------------------------------------------------------------------------
(* transformFixtureData() and fetchMatchesByDate() on any entry / payload *)

\* transformFixtureData(fixture) is called (one call is looked at).
TransformCall(f) ==
    /\ fetch = NoFetch
    /\ fetch' = [NoFetch EXCEPT !.op = "transform", !.fixture = f,
                                !.result = TransformFixtureData(f),
                                !.threw = TransformEscapes(f)]
    /\ UNCHANGED <<Channel, admin, isRunning, totalRuns, lastSyncStatus, lastError, syncLogs,
                   matches, lastSyncDate, now, pc, run, api, calls, plan, sched>>

\* fetchMatchesByDate(date) is called and makeApiRequest returns body data.
FetchCall(data) ==
    /\ fetch = NoFetch
    /\ LET fixtures == ApiResult(data)
           given == IF fixtures.kind = "array" THEN GivenToTransform(fixtures.items)
                    ELSE <<>>
       IN  fetch' = [NoFetch EXCEPT
                        !.op = "fetch", !.body = data, !.given = given,
                        !.valid = FetchedMatches(data),
                        !.threw = \E i \in 1..Len(given) : TransformEscapes(given[i])]
    /\ UNCHANGED <<Channel, admin, isRunning, totalRuns, lastSyncStatus, lastError, syncLogs,
                   matches, lastSyncDate, now, pc, run, api, calls, plan, sched>>

NextFetch ==
    \/ \E f \in FetchFixtures : TransformCall(f)
    \/ \E data \in FetchResponses : FetchCall(data)

SpecFetch == Init /\ [][NextFetch]_vars

----------------------------------------------------------------------------
(* updateSchedulerStatus() called with any schedule, at any time *)

Schedules == {<<SYNC_HOUR, SYNC_MINUTE>>, <<0, 0>>, <<23, 59>>}
Zones == {Utc, Algiers, NewYork, InvalidZone}
\* the UTC offsets of the zone the process runs in
ProcessOffsets == {Utc.off, Algiers.off, NewYork.off}
\* clock readings: seconds of the UTC day Today
ClockReadings ==
    {Today * 86400 + sec : sec \in {0, 1800, 3600, 7199, 7200, 7201,
                                     25199, 25201, 43200, 86399}}

SetSchedule(enabled, hm, timezone, instant, procOff, h24) ==
    /\ sched' = UpdateSchedulerStatus(enabled, hm[1], hm[2], timezone, instant,
                                      procOff, h24)
    /\ UNCHANGED <<Channel, admin, isRunning, totalRuns, lastSyncStatus, lastError, syncLogs,
                   matches, lastSyncDate, now, pc, run, api, calls, plan, fetch>>

NextSched ==
    \E enabled \in BOOLEAN, hm \in Schedules, timezone \in Zones,
       instant \in ClockReadings, procOff \in ProcessOffsets, h24 \in BOOLEAN :
        SetSchedule(enabled, hm, timezone, instant, procOff, h24)

SpecSched == Init /\ [][NextSched]_vars

----------------------------------------------------------------------------
(* The admin router (routes/admin.js): layers in the order of registration,
   mounted at /api/admin. Paths are sequences of segments, a segment is
   the sequence of its characters. The GET routes under /channels and
   /categories and the two routes registered before the authentication. *)

SegHealth == <<"h", "e", "a", "l", "t", "h">>
SegVerifyPasskey ==
    <<"v", "e", "r", "i", "f", "y", "-", "p", "a", "s", "s", "k", "e", "y">>
SegChannels == <<"c", "h", "a", "n", "n", "e", "l", "s">>
SegCategories == <<"c", "a", "t", "e", "g", "o", "r", "i", "e", "s">>
SegStats == <<"s", "t", "a", "t", "s">>

\* a named parameter of a route path: ':id'
Param(name) == <<":", name>>
IsParam(seg) == Len(seg) > 0 /\ seg[1] = ":"

\* objectId(): Joi.string().hex().length(24)
HexDigits == {"0", "1", "2", "3", "4", "5", "6", "7", "8", "9",
              "a", "b", "c", "d", "e", "f", "A", "B", "C", "D", "E", "F"}
IsObjectId(seg) == Len(seg) = 24 /\ \A i \in 1..Len(seg) : seg[i] \in HexDigits

\* the id of a stored document, a well-formed id of none, a malformed id
StoredId == [i \in 1..24 |-> "a"]
UnknownId == [i \in 1..24 |-> "0"]
ShortId == <<"7">>

Route(method, path, handler, validates) ==
    [kind |-> "route", method |-> method, path |-> path, handler |-> handler,
     validates |-> validates]
Use(handler) ==
    [kind |-> "use", method |-> "", path |-> <<>>, handler |-> handler,
     validates |-> None]

AdminRouter ==
    << Route("GET", <<SegHealth>>, "health", None),
       Route("POST", <<SegVerifyPasskey>>, "verifyPasskey", None),
       Use("authenticateAdmin"),
       Use("noCache"),
       Route("GET", <<SegChannels>>, "getAllChannels", None),
       Route("GET", <<SegChannels, SegStats>>, "getChannelsWithStats", None),
       Route("GET", <<SegChannels, Param("id")>>, "getChannelById", Some("idParam")),
       Route("GET", <<SegCategories>>, "getAllCategories", None),
       Route("GET", <<SegCategories, Param("id")>>, "getCategoryById", Some("idParam")),
       Route("GET", <<SegCategories, SegStats>>, "getCategoryStats", None) >>

\* a route path matches a request path: segment by segment, a parameter
\* matching any segment
PathMatches(pattern, path) ==
    /\ Len(pattern) = Len(path)
    /\ \A i \in 1..Len(pattern) : IsParam(pattern[i]) \/ pattern[i] = path[i]

\* req.params of a matched route
ParamsOf(pattern, path) == {path[i] : i \in {j \in 1..Len(pattern) : IsParam(pattern[j])}}

\* the answer to a request: the status, the handler that answered, the
\* success flag of the body and what the body carries, and the
\* middleware that ran before
Answer(status, handler, success, body, ran) ==
    [status |-> status, handler |-> handler, success |-> success,
     body |-> body, ran |-> ran]

\* errorHandler: an operational error answers with its status code and
\* message, a Joi error with 400 'Validation failed'
ErrorAnswer(status, message, ran) ==
    Answer(status, "errorHandler", FALSE, message, ran)

\* authenticateAdmin: the message of the AuthenticationError it throws, or
\* none when it calls next()
AuthenticateAdmin(passkey, expectedPasskey) ==
    IF FalsyStr(passkey) THEN Some("Admin passkey is required")
    ELSE IF FalsyStr(expectedPasskey) THEN Some("Server configuration error")
    ELSE IF passkey # expectedPasskey THEN Some("Invalid admin passkey")
    ELSE None

\* validate(schemas.idParam, 'params'): the id is a 24-digit hex string
ValidParams(params) == \A id \in params : IsObjectId(id)

\* the documents the by-id handlers find
StoredObjectIds == {StoredId}

\* the route handler answers: the by-id handlers with the document or a
\* NotFoundError, the others with their data
HandlerAnswer(handler, params, ran) ==
    IF handler \in {"getChannelById", "getCategoryById"}
    THEN IF params \subseteq StoredObjectIds
         THEN Answer(200, handler, TRUE, "document", ran)
         ELSE ErrorAnswer(404, "not found", ran)
    ELSE IF handler = "verifyPasskey"
    THEN Answer(200, handler, TRUE, "Admin passkey verified successfully", ran)
    ELSE IF handler = "health"
    THEN Answer(200, handler, TRUE, "Admin API is healthy", ran)
    ELSE Answer(200, handler, TRUE, "data", ran)

\* The router hands the request to its layers from layer i on, in the
\* order of registration: a middleware runs for every request, a route
\* for the requests of its method whose path matches, and the first layer
\* that answers or fails ends the dispatch. A request no layer answers
\* falls through to the 404 handler of the application.
RECURSIVE Dispatch(_, _, _, _)
Dispatch(layers, i, req, ran) ==
    IF i > Len(layers)
    THEN Answer(404, "notFound", FALSE, "Route not found", ran)
    ELSE LET layer == layers[i]
         IN  IF layer.kind = "use"
             THEN IF layer.handler = "authenticateAdmin"
                     /\ AuthenticateAdmin(req.passkey, req.expectedPasskey) # None
                  THEN ErrorAnswer(401, AuthenticateAdmin(req.passkey,
                                                         req.expectedPasskey)[1], ran)
                  ELSE Dispatch(layers, i + 1, req, Append(ran, layer.handler))
             ELSE IF layer.method = req.method /\ PathMatches(layer.path, req.path)
             THEN IF layer.validates # None
                     /\ ~ValidParams(ParamsOf(layer.path, req.path))
                  THEN ErrorAnswer(400, "Validation failed", ran)
                  ELSE HandlerAnswer(layer.handler, ParamsOf(layer.path, req.path), ran)
             ELSE Dispatch(layers, i + 1, req, ran)

\* the requests: a method and a path under /api/admin, the x-admin-passkey
\* header (absent, empty or a value), and the ADMIN_PASSKEY of the server
Passkeys == {None, Some(""), Some("secret"), Some("guess")}
ExpectedPasskeys == {None, Some("secret"), Some("other")}
Ids == {StoredId, UnknownId, ShortId, SegStats}
GetPaths ==
    {<<SegHealth>>, <<SegVerifyPasskey>>, <<SegChannels>>, <<SegCategories>>}
    \cup {<<SegChannels, id>> : id \in Ids}
    \cup {<<SegCategories, id>> : id \in Ids}
PostPaths == {<<SegHealth>>, <<SegVerifyPasskey>>}
Requests ==
    {[method |-> mp[1], path |-> mp[2], passkey |-> k, expectedPasskey |-> e] :
        mp \in ({"GET"} \X GetPaths) \cup ({"POST"} \X PostPaths),
        k \in Passkeys, e \in ExpectedPasskeys}

\* A request arrives at the admin router and is answered.
AdminRequest(req) ==
    /\ admin' = [admin EXCEPT !.http =
                    Some([req |-> req, res |-> Dispatch(AdminRouter, 1, req, <<>>)])]
    /\ UNCHANGED <<Channel, fetch, plan, sched, isRunning, totalRuns, lastSyncStatus,
                   lastError, syncLogs, matches, lastSyncDate, now, pc, run, api,
                   calls>>

NextRoute == \E req \in Requests : AdminRequest(req)

SpecRoute == Init /\ [][NextRoute]_vars

----------------------------------------------------------------------------
(* Properties *)

\* C1: a syncMatches() call made while another call is in flight returns
\* {success: false} at once, creates no SyncLog and leaves totalRuns,
\* lastSyncStatus and lastError as they were; and at no time are two calls
\* past the running guard.
C1_MutualExclusion ==
    /\ [][\A p \in Callers :
            (/\ pc[p] = "idle"
             /\ pc'[p] # "idle"
             /\ \E q \in Callers \ {p} : InFlight(q))
            => /\ pc'[p] = "returned"
               /\ run'[p].result.kind = "value"
               /\ run'[p].result.value.success = FALSE
               /\ syncLogs' = syncLogs
               /\ totalRuns' = totalRuns
               /\ lastSyncStatus' = lastSyncStatus
               /\ lastError' = lastError]_vars
    /\ [](Cardinality({p \in Callers : InFlight(p)}) <= 1)

\* a call has been rejected while the other caller's run is in flight
C1_Witness ==
    \E p \in Callers, q \in Callers :
        /\ p # q
        /\ InFlight(q)
        /\ pc[p] = "returned"
        /\ run[p].result = Returned(AlreadyRunningResult)

\* C2: every call that has passed the guard ends with isRunning false again,
\* whichever way the run ends, and isRunning is never true without a call
\* in flight, so no later call is rejected because of a run that has ended.
C2_FlagReleased ==
    /\ \A p \in Callers : InFlight(p) ~> (pc[p] = "returned" /\ ~isRunning)
    /\ [](isRunning => \E q \in Callers : InFlight(q))

\* a run has ended with an error raised inside the failure handler
C2_Witness ==
    \E p \in Callers :
        /\ pc[p] = "returned"
        /\ run[p].result.kind = "throw"
        /\ ~isRunning

\* C3: syncMatches() never throws: every call ends with a result value.
\* (Violated: log.save() rejecting inside the catch block reaches the caller.)
C3_NeverThrows ==
    \A p \in Callers : pc[p] = "returned" => run[p].result.kind = "value"

\* C4: a SyncLog that has left status 'running' keeps the status it took:
\* 'completed' never becomes 'failed', nothing returns to 'running'.
\* (Violated: AppSetting.updateOne rejecting after the 'completed' save.)
C4_StatusChangesOnce ==
    [][\A i \in 1..Len(syncLogs) :
          syncLogs[i].status # "running"
          => syncLogs'[i].status = syncLogs[i].status]_vars

\* C5: at most one stored SyncLog has status 'running'.
\* (Violated: a run whose failure handler could not save leaves its record
\* 'running', and the next run creates another.)
C5_OneRunningLog ==
    Cardinality({i \in 1..Len(syncLogs) : syncLogs[i].status = "running"}) <= 1

\* C6: makeApiRequest makes at most 3 attempts; it throws exactly when the
\* third attempt has failed, and the ExternalAPIError message ends with the
\* message of that third failure.
C6_RetryExhaustion ==
    /\ Len(api.errors) <= 3
    /\ api.state = "attempt" => Len(api.errors) < 3
    /\ api.state = "threw" <=> Len(api.errors) = 3
    /\ api.state = "threw" =>
          api.thrown = "Failed to fetch data from API: " \o api.errors[3]

\* three attempts have failed, the last with another message than the first
C6_Witness ==
    /\ api.state = "threw"
    /\ api.errors[3] # api.errors[1]
    /\ api.errors[3] # api.errors[2]

\* C7: when two attempts fail and the third succeeds, makeApiRequest returns
\* the list of the third response and has waited 2000 ms and then 4000 ms;
\* there is one wait per failed attempt that is followed by another attempt,
\* so none after the last attempt.
C7_Backoff ==
    /\ (api.state = "returned" /\ Len(api.errors) = 2)
          => /\ api.waits = <<2000, 4000>>
             /\ api.body.kind = "array" => api.returned = api.body
    /\ api.state = "threw" => api.waits = <<2000, 4000>>
    /\ api.state # "threw" => Len(api.waits) = Len(api.errors)

\* two attempts failed and the third returned a non-empty list
C7_Witness ==
    /\ api.state = "returned"
    /\ Len(api.errors) = 2
    /\ api.body.kind = "array"
    /\ api.body.items # <<>>
    /\ api.returned = api.body

\* the part of C8 about order: at most one bulk upsert per run, only after
\* every planned date was fetched, none after a failed fetch
UpsertAfterAllFetches ==
    \A p \in Callers :
        /\ run[p].upserts <= 1
        /\ run[p].upserts = 1 => /\ run[p].fetched = Len(run[p].syncDates)
                                 /\ ~run[p].fetchFailed
        /\ run[p].fetchFailed => /\ run[p].fetched < Len(run[p].syncDates)
                                 /\ pc[p] \in {"catch", "returned"}

\* C8: one bulk upsert per run at most and only after every planned date
\* was fetched; a failed fetch stops the loop, no upsert follows, and the
\* run ends as failed: failure result returned, SyncLog 'failed'.
\* (Violated in its last part: log.save() rejecting inside the catch block.)
C8_FetchFailureAborts ==
    /\ UpsertAfterAllFetches
    /\ \A p \in Callers :
          (run[p].fetchFailed /\ pc[p] = "returned")
          => /\ run[p].result.kind = "value"
             /\ run[p].result.value.success = FALSE
             /\ syncLogs[run[p].logId].status = "failed"

\* C9: a run that ends as failed (SyncLog 'failed', success: false with an
\* error returned) has left the Match collection as it was at its start.
\* (Violated: a failure after the bulk upsert, or inside it.)
C9_FailedRunKeepsStore ==
    \A p \in Callers :
        (/\ pc[p] = "returned"
         /\ run[p].result.kind = "value"
         /\ run[p].result.value.success = FALSE
         /\ run[p].result.value.error # None
         /\ run[p].logId # 0
         /\ syncLogs[run[p].logId].status = "failed")
        => matches = run[p].startMatches

\* the first two calls upsert the same single match into the empty store,
\* and nothing else has written to the store between them
SameFixtureTwice ==
    /\ Len(calls) >= 2
    /\ calls[1].before = <<>>
    /\ Len(calls[1].data) = 1
    /\ calls[2].data = calls[1].data
    /\ calls[2].before = calls[1].after

\* C10 as stated: inserted = 1, updated = 0, then inserted = 0, updated = 1,
\* and the stored record after the second call equals the one after the first.
\* (Violated: updated = 1 is the refreshed updatedAt, so the record differs;
\* with no clock tick between the calls updated = 0.)
C10_Idempotent ==
    SameFixtureTwice
    => /\ calls[1].inserted = 1 /\ calls[1].updated = 0
       /\ calls[2].inserted = 0 /\ calls[2].updated = 1
       /\ calls[2].after = calls[1].after

\* C10 amended: inserted = 1, updated = 0, then inserted = 0; updated = 1 on
\* the second call exactly when the clock has advanced since the first, and
\* then updatedAt is the one field that differs; the store holds one record.
C10_IdempotentButTimestamp ==
    SameFixtureTwice
    => /\ calls[1].inserted = 1 /\ calls[1].updated = 0
       /\ calls[2].inserted = 0
       /\ calls[2].updated = (IF calls[2].at > calls[1].at THEN 1 ELSE 0)
       /\ Len(calls[1].after) = 1 /\ Len(calls[2].after) = 1
       /\ calls[2].after[1] = [calls[1].after[1] EXCEPT !.updatedAt = calls[2].at]
       /\ calls[1].after[1].updatedAt = calls[1].at
       /\ calls[1].after[1].createdAt = calls[1].at

\* the same fixture was upserted twice, the second time at a later instant
C10_Witness ==
    /\ SameFixtureTwice
    /\ calls[2].at > calls[1].at
    /\ calls[2].updated = 1

\* the stored document with a match_id, and the last record of a list with it
StoredWith(coll, id) == coll[MinOf({i \in 1..Len(coll) : coll[i].match_id = id})]
LastWith(data, id) == data[CHOOSE i \in 1..Len(data) :
                             /\ data[i].match_id = id
                             /\ \A j \in (i + 1)..Len(data) : data[j].match_id # id]

\* C11: after any sequence of bulkUpsertMatches calls, also with lists that
\* hold a match_id more than once, the store has at most one record per
\* match_id.
C11_UniqueMatchId ==
    \A i \in 1..Len(matches), j \in 1..Len(matches) :
        matches[i].match_id = matches[j].match_id => i = j

\* a list holding one match_id twice was upserted after an earlier call had
\* stored that match_id, and the store holds two different matches
C11_Witness ==
    /\ Len(calls) >= 2
    /\ calls[2].data \in DuplicateLists
    /\ IdsOf(calls[2].data) \cap IdsOf(calls[1].after) # {}
    /\ Len(matches) = 2

PlanSkipsStoredDays ==
    LET want == {d \in plan.today..(plan.today + 6) : ~HasMatchesForDate(matches, d)}
        n == Len(plan.dates)
    IN  /\ n = 1 + Cardinality(want)
        /\ plan.dates[1] = plan.today - 1
        /\ {plan.dates[k] : k \in 2..n} = want
        /\ \A k \in 2..(n - 1) : plan.dates[k] < plan.dates[k + 1]

\* C13: getSmartSyncDates returns yesterday first, then exactly the days
\* today .. today + 6 for which hasMatchesForDate reports no stored match,
\* ascending.
\* (Violated: the service in use returns yesterday, today, tomorrow.)
C13_SmartSyncDates == plan.by # "none" => PlanSkipsStoredDays

\* the getSmartSyncDates of services/syncService.js does plan that way
C13_ByStoreVariant == plan.by = "store" => PlanSkipsStoredDays

\* the schedule, the wall clock of the target zone and the seconds of its
\* day at the last updateSchedulerStatus call, made with enabled = true and
\* a zone Intl knows
Scheduled == sched.args # None /\ sched.args[1].enabled /\ sched.args[1].timezone.valid
SchedWall == sched.args[1].instant + sched.args[1].timezone.off
SchedSecond == sched.args[1].hour * 3600 + sched.args[1].minute * 60
\* the instant at which the target zone's clock shows hour:minute on a day
Occurrence(day) == day * 86400 + SchedSecond - sched.args[1].timezone.off

\* C14: when the clock of the target zone is before hour:minute the next
\* run is today's hour:minute of that zone, when it is after, tomorrow's.
\* (Violated: the date-time string is read in the zone of the process.)
C14_NextOccurrence ==
    Scheduled =>
        /\ SchedWall % 86400 < SchedSecond
              => sched.nextRun = Some(Occurrence(DayOf(SchedWall)))
        /\ SchedWall % 86400 > SchedSecond
              => sched.nextRun = Some(Occurrence(DayOf(SchedWall) + 1))

\* in a process that runs in the target zone, on a runtime whose hour part
\* at midnight is "00", the next run is that occurrence
C14_SameZone ==
    (/\ Scheduled
     /\ sched.args[1].procOff = sched.args[1].timezone.off
     /\ ~sched.args[1].h24)
        => C14_NextOccurrence

\* C15: the next run is never earlier than the instant it was computed at,
\* whatever the offsets of the process and of the target zone.
\* (Violated: process ahead of the target zone, shortly before hour:minute.)
C15_NeverInThePast ==
    Scheduled => sched.nextRun # None /\ sched.nextRun[1] >= sched.args[1].instant

\* C17: updateSchedulerStatus never throws; with a time zone name that
\* Intl rejects, and whenever enabled is false, nextRun is null.
C17_NullNotThrow ==
    sched.args # None =>
        /\ ~sched.threw
        /\ ~sched.args[1].timezone.valid => sched.nextRun = None
        /\ ~sched.args[1].enabled => (sched.nextRun = None /\ ~sched.enabled)

\* the scheduler was enabled with a time zone name Intl rejects
C17_Witness ==
    /\ sched.args # None
    /\ sched.args[1].enabled
    /\ ~sched.args[1].timezone.valid
    /\ sched.enabled
    /\ sched.nextRun = None

\* C16: whenever the cron handler finishes, whatever the outcome of the
\* sync it had started, updateSchedulerStatus(true, ...) has been called
\* since the trigger fired; so whenever no cron handler is under way, the
\* scheduler fields were set after the last firing.
C16_UpdatedAfterTrigger ==
    /\ [][(pc["cron"] # "idle" /\ pc'["cron"] = "idle")
            => (sched'.fresh /\ sched'.enabled /\ sched'.args # None)]_vars
    /\ [](pc["cron"] = "idle" => sched.fresh)

\* a cron handler has finished whose sync threw, and the scheduler fields
\* were set after it
C16_Witness ==
    /\ pc["cron"] = "idle"
    /\ sched.after = "throw"
    /\ sched.fresh
    /\ sched.nextRun # None

\* an entry lacks a required field: it is null, or the fixture id, the
\* date, the home or away team name or the league name is absent or empty
\* (an id of 0 counts as absent)
LacksRequired(f) ==
    \/ f.shape = "null"
    \/ f.id \in {None, Some(0)}
    \/ f.date = None
    \/ f.home \in {None, Some("")}
    \/ f.away \in {None, Some("")}
    \/ f.lname \in {None, Some("")}
WellFormed(f) == ~LacksRequired(f) /\ f.date[1].valid
AllowListed(f) == f.shape = "object" /\ f.lid # None /\ f.lid[1] \in SUPPORTED_LEAGUES

\* C18: transformFixtureData returns null for every entry that lacks the
\* fixture id, the date, the home team name, the away team name or the
\* league name, and the match record of the entry (its id as match_id, its
\* names) for every entry that has all five and a date that parses.
C18_TransformFilters ==
    fetch.op = "transform" =>
        LET f == fetch.fixture
        IN  /\ LacksRequired(f) => fetch.result = None
            /\ WellFormed(f) =>
                  /\ fetch.result # None
                  /\ fetch.result[1].external_id = f.id[1]
                  /\ fetch.result[1].match_id = NumToString(f.id[1])
                  /\ fetch.result[1].home_team_name = f.home[1]
                  /\ fetch.result[1].away_team_name = f.away[1]
                  /\ fetch.result[1].competition_name = f.lname[1]

\* transformFixtureData was given an entry that lacks the away team name
\* only and returned null
C18_Witness ==
    /\ fetch.op = "transform"
    /\ fetch.fixture = FNoAway
    /\ fetch.result = None

\* C19: neither transformFixtureData nor fetchMatchesByDate throws on an
\* entry that is null, wrong-shaped or has a date that does not parse, and
\* fetchMatchesByDate returns one record for every well-formed allow-listed
\* entry of the list, in the order of the list, and nothing else.
C19_MalformedNeverThrow ==
    /\ ~fetch.threw
    /\ (fetch.op = "fetch" /\ fetch.body.kind = "array") =>
          LET items == fetch.body.items
              good == {i \in 1..Len(items) : WellFormed(items[i]) /\ AllowListed(items[i])}
          IN  /\ Len(fetch.valid) = Cardinality(good)
              /\ \A i \in good :
                    \E k \in 1..Len(fetch.valid) :
                        /\ fetch.valid[k].external_id = items[i].id[1]
                        /\ k = Cardinality({j \in good : j <= i})

\* a payload with an entry whose date does not parse, or a null entry,
\* before a well-formed entry, whose record was returned
C19_Witness ==
    /\ fetch.op = "fetch"
    /\ ~fetch.threw
    /\ Len(fetch.body.items) = 2
    /\ fetch.body.items[1] \in {FBadDate, NullFixture}
    /\ WellFormed(fetch.body.items[2])
    /\ Len(fetch.valid) = 1

\* C20: no fixture of a league outside SUPPORTED_LEAGUES is handed to
\* transformFixtureData by a sync run, none is in the list the run passes
\* to the upsert, and none is stored.
C20_AllowListOnly ==
    /\ \A p \in Callers :
          /\ ~run[p].offListGiven
          /\ \A i \in 1..Len(run[p].allMatches) :
                /\ run[p].allMatches[i].league_id # None
                /\ run[p].allMatches[i].league_id[1] \in SUPPORTED_LEAGUES
    /\ \A i \in 1..Len(matches) :
          /\ matches[i].league_id # None
          /\ matches[i].league_id[1] \in SUPPORTED_LEAGUES

\* a run whose payloads held a fixture of another league and a supported
\* one has completed its upsert, and the store holds one match
C20_Witness ==
    \E p \in Callers :
        /\ run[p].offListSeen
        /\ run[p].upserts = 1
        /\ pc[p] = "returned"
        /\ run[p].result.kind = "value"
        /\ run[p].result.value.success
        /\ Len(matches) = 1


\* C21: within a run the planned dates are fetched one after another in
\* planned order (the k-th fetch is of the k-th planned date), a
\* RATE_LIMIT_DELAY wait follows the fetch of every date but the last and
\* none follows the last: while the loop runs there are as many waits as
\* fetches done, and a run whose n fetches have all succeeded has waited
\* exactly n - 1 times, 1000 ms each.
C21_RateLimitDelays ==
    /\ [](\A p \in Callers :
        LET r == run[p]
            n == Len(r.syncDates)
        IN  /\ \A i \in 1..Len(r.rateDelays) : r.rateDelays[i] = 1000
            /\ pc[p] = "fetch" /\ ~r.fetchFailed
                => /\ r.dateIdx = r.fetched + 1
                   /\ r.fetched < n
                   /\ Len(r.rateDelays) = r.fetched
            /\ pc[p] \in {"upsert", "save", "setting"}
                => /\ r.fetched = n
                   /\ Len(r.rateDelays) = n - 1)
    /\ [][\A p \in Callers :
            (pc[p] = "fetch" /\ run'[p].fetched = run[p].fetched + 1)
            => /\ run'[p].syncDates = run[p].syncDates
               /\ run[p].dateIdx = run'[p].fetched
               /\ Len(run'[p].rateDelays) - Len(run[p].rateDelays)
                    = (IF run'[p].fetched < Len(run[p].syncDates) THEN 1 ELSE 0)]_vars

\* a run has fetched all three planned dates and waited twice
C21_Witness ==
    \E p \in Callers :
        /\ pc[p] = "upsert"
        /\ run[p].fetched = 3
        /\ run[p].rateDelays = <<RATE_LIMIT_DELAY, RATE_LIMIT_DELAY>>


\* a syncMatches() call of caller p passes the running guard in this step
Accepted(p) == pc[p] = "idle" /\ pc'[p] = "create"

\* a syncMatches() call of caller p is rejected as already running in this step
Rejected(p) == pc[p] = "idle" /\ pc'[p] = "returned"

\* C22: totalRuns never decreases; it grows by exactly one in the step in
\* which a syncMatches() call passes the running guard, whatever becomes of
\* that run, and by nothing in any other step, the rejection of a call as
\* already running included.
C22_TotalRuns ==
    [][/\ totalRuns' >= totalRuns
       /\ (\E p \in Callers : Accepted(p)) => totalRuns' = totalRuns + 1
       /\ (\E p \in Callers : Rejected(p)) => totalRuns' = totalRuns
       /\ ~(\E p \in Callers : Accepted(p)) => totalRuns' = totalRuns]_vars

\* two runs have been accepted, the first one failed, and a call made
\* during the second one has been rejected
C22_Witness ==
    /\ totalRuns = 2
    /\ isRunning
    /\ \E i \in 1..Len(syncLogs) : syncLogs[i].status = "failed"
    /\ \E p \in Callers :
        /\ pc[p] = "returned"
        /\ run[p].result = Returned(AlreadyRunningResult)


\* the step in which the failure handler of caller p's run ends, the run
\* having created its SyncLog
FailureHandled(p) == pc[p] = "catch" /\ run[p].logId # 0 /\ pc'[p] = "returned"

\* C23: when a step of a run throws after the run's SyncLog was created,
\* the failure handler leaves that SyncLog stored with status 'failed' and
\* the thrown message as error_message, sets lastError to the same
\* message, and the run is not started again: a SyncLog is created only by
\* a run that has none yet, one per accepted call at most.
\* (Violated: log.save() rejecting inside the catch block leaves the stored
\* record as it was and lastError unset.)
C23_FailureLogged ==
    /\ [][\A p \in Callers :
            FailureHandled(p)
            => /\ syncLogs'[run[p].logId].status = "failed"
               /\ syncLogs'[run[p].logId].error_message = Some(run[p].err)
               /\ lastError' = Some(run[p].err)]_vars
    /\ [][Len(syncLogs') # Len(syncLogs)
            => /\ Len(syncLogs') = Len(syncLogs) + 1
               /\ \E p \in Callers :
                    /\ pc[p] = "create"
                    /\ run[p].logId = 0
                    /\ run'[p].logId = Len(syncLogs')]_vars
    /\ [](Len(syncLogs) <= totalRuns)


\* the step in which caller p's call gets its outcome, and whether that
\* outcome is the success value
Ends(p) == pc[p] # "returned" /\ pc'[p] = "returned"
EndsInSuccess(p) ==
    /\ Ends(p)
    /\ run'[p].result.kind = "value"
    /\ run'[p].result.value.success

\* C24: the last_sync_date setting is written exactly by a run that
\* returns success:true with its SyncLog stored as 'completed': a step
\* changes the setting only if it is the one in which such a run gets its
\* result, every run that returns success leaves the setting at the
\* instant of its write, and a call that ends failed, throws or is
\* rejected leaves the setting as it was.
C24_LastSyncDate ==
    [][/\ lastSyncDate' # lastSyncDate
            => \E p \in Callers :
                /\ EndsInSuccess(p)
                /\ syncLogs'[run[p].logId].status = "completed"
       /\ \A p \in Callers :
            /\ EndsInSuccess(p)
                => /\ lastSyncDate' = Some(now)
                   /\ syncLogs'[run[p].logId].status = "completed"
            /\ (Ends(p) /\ ~EndsInSuccess(p)) => lastSyncDate' = lastSyncDate]_vars

\* a first run has failed after its SyncLog was saved as 'completed',
\* leaving no setting; a second run has succeeded and written it
C24_Witness ==
    /\ lastSyncDate = Some(now)
    /\ Len(syncLogs) = 2
    /\ syncLogs[1].status = "failed"
    /\ syncLogs[1].matches_fetched > 0
    /\ syncLogs[2].status = "completed"
    /\ \E p \in Callers :
        /\ pc[p] = "returned"
        /\ run[p].result = Returned(SuccessStatus(syncLogs[2]))


\* C25: an upsert never changes the channels list of a match that was
\* stored before it: every bulkUpsertMatches call leaves the channels of
\* every stored match as they were, in the list or not, so links set by
\* linkChannelsToMatch survive the later upserts of the same match_id; a
\* step that changes the channels of a stored match is not an upsert.
C25_UpsertKeepsChannels ==
    /\ [](\A k \in 1..Len(calls) :
            \A id \in IdsOf(calls[k].before) :
                StoredWith(calls[k].after, id).channels
                    = StoredWith(calls[k].before, id).channels)
    /\ [][\A i \in 1..Len(matches) :
            /\ i <= Len(matches')
            /\ matches'[i].match_id = matches[i].match_id
            /\ matches'[i].channels # matches[i].channels => calls' = calls]_vars

\* a match was inserted, linked to channel c1, and refreshed by a later
\* upsert that changed its fields: the link is still stored
C25_Witness ==
    /\ Len(calls) = 2
    /\ calls[1].inserted = 1
    /\ calls[2].updated = 1
    /\ calls[2].before[1].channels = <<"c1">>
    /\ calls[2].before[1].status # calls[2].after[1].status
    /\ Len(matches) = 1
    /\ matches[1].channels = <<"c1">>


\* the counters of a SyncLog add up: inserted + updated <= fetched
CountsAddUp(log) ==
    log.matches_inserted + log.matches_updated <= log.matches_fetched

\* C26: the list a run hands to the bulk upsert is the aggregate of the
\* allow-listed, transformed fixtures of its planned dates, the SyncLog's
\* matches_fetched is the length of that list from the upsert on, and in
\* every SyncLog saved as 'completed', as in the result the run returns,
\* matches_inserted + matches_updated is at most matches_fetched.
C26_Counts ==
    /\ [](\A p \in Callers :
            LET r == run[p]
            IN  /\ \A i \in 1..Len(r.allMatches) :
                        r.allMatches[i].league_id # None
                        /\ r.allMatches[i].league_id[1] \in SUPPORTED_LEAGUES
                /\ pc[p] \in {"upsert", "save", "setting"}
                    => r.log.matches_fetched = Len(r.allMatches)
                /\ pc[p] \in {"save", "setting"} => CountsAddUp(r.log)
                /\ (pc[p] = "returned" /\ r.result.kind = "value")
                    => CountsAddUp(r.result.value))
    /\ [](\A i \in 1..Len(syncLogs) :
            syncLogs[i].status = "completed" => CountsAddUp(syncLogs[i]))
    /\ [][\A p \in Callers :
            (pc[p] = "upsert" /\ pc'[p] = "save")
            => /\ run'[p].allMatches = run[p].allMatches
               /\ matches' = BulkUpsertMatches(matches, run[p].allMatches, now).coll
               /\ run'[p].log.matches_fetched = Len(run[p].allMatches)]_vars

\* a completed run that fetched the same fixture for all three dates:
\* three records fetched, one inserted, none updated
C26_Witness ==
    \E i \in 1..Len(syncLogs) :
        /\ syncLogs[i].status = "completed"
        /\ syncLogs[i].matches_fetched = 3
        /\ syncLogs[i].matches_inserted = 1
        /\ syncLogs[i].matches_updated = 0


\* the ids in the channels list of a Match document
LinkedIds(doc) == {doc.channels[k] : k \in 1..Len(doc.channels)}

\* C27: once deleteChannel(id) has returned, no stored match has id in its
\* channels list, whatever link requests ran alongside the deletion.
\* (Violated: a link request that has found the channel saves its list
\* after the deletion has pulled the id from every match.)
C27_NoDanglingLink ==
    admin.del.outcome = "ok"
    => \A i \in 1..Len(matches) : admin.del.id \notin LinkedIds(matches[i])


\* the step in which a linkChannelsToMatch call ends
LinkEnds == admin.link.pc # "done" /\ admin'.link.pc = "done"

\* C28: linkChannelsToMatch is all-or-nothing. A call for a match that
\* is not stored, or with an id that names no stored channel, ends with
\* NotFoundError and leaves the Match collection as it was; every other
\* call ends well with the match's channels list equal to the supplied
\* ids; and no step before the end of a call writes to the collection.
\* (Violated: a list that names a stored channel twice is refused.)
C28_AllOrNothing ==
    [][/\ LinkEnds =>
            LET l == admin'.link
                hits == MatchHits(l.match_id)
                allExist == \A k \in 1..Len(l.channelIds) : l.channelIds[k] \in Channel
            IN  /\ (hits = {} \/ ~allExist)
                    => (l.outcome = "NotFoundError" /\ matches' = matches)
                /\ (hits # {} /\ allExist)
                    => /\ l.outcome = "ok"
                       /\ matches'[MinOf(hits)].channels = l.channelIds
       /\ (admin' # admin /\ ~LinkEnds) => matches' = matches]_vars


\* the request answered last was sent with the configured passkey
Authenticated(req) ==
    /\ ~FalsyStr(req.passkey)
    /\ req.passkey = req.expectedPasskey

\* C29: POST /admin/verify-passkey answers success only to a request
\* whose passkey equals the configured ADMIN_PASSKEY: when verifyPasskey
\* answers, authenticateAdmin has run and accepted the request, and a
\* request with a missing or wrong passkey gets the 401 of an
\* AuthenticationError.
\* (Violated: the route is registered before the authentication.)
C29_VerifyPasskey ==
    admin.http # None =>
        LET req == admin.http[1].req
            res == admin.http[1].res
        IN  /\ res.handler = "verifyPasskey"
                => /\ Authenticated(req)
                   /\ \E k \in 1..Len(res.ran) : res.ran[k] = "authenticateAdmin"
            /\ (req.method = "POST" /\ req.path = <<SegVerifyPasskey>>
                    /\ ~Authenticated(req))
                => (res.status = 401 /\ ~res.success)

\* C30: an authenticated GET /admin/categories/stats is answered by the
\* category-statistics handler with its data, not by the route
\* /categories/:id and its id validation.
\* (Violated: /categories/:id is registered first and takes the request.)
C30_CategoryStats ==
    admin.http # None =>
        LET req == admin.http[1].req
            res == admin.http[1].res
        IN  (req.method = "GET" /\ req.path = <<SegCategories, SegStats>>
                /\ Authenticated(req))
            => /\ res.handler = "getCategoryStats"
               /\ res.status = 200
               /\ res.success

====
